---- MODULE Spec2Model ----
(***************************************************************************)
(* A model of the Oxford word-list parser of src/gen_oxford_list.py:       *)
(* parse_word_entry (the scan for the word forms, the removal of the word, *)
(* the split into raw subentries) and parse_subentry (definition, level,   *)
(* part-of-speech list).                                                   *)
(*                                                                         *)
(* A Python str is modelled as a sequence of one-character strings, so     *)
(* that split, replace, strip and the regular expressions are computed     *)
(* character by character, as the interpreter computes them.               *)
(***************************************************************************)
EXTENDS Integers, Sequences, FiniteSets, TLC

(***************************************************************************)
(* Module-level configuration of the parser.                               *)
(***************************************************************************)

\* PART_OF_SPEECH_VALUES, with the regular-expression escapes read ('n\.' is "n.")
PART_OF_SPEECH_VALUES ==
  <<
    <<"n",".">>,
    <<"n","o","u","n",".">>,
    <<"v",".">>,
    <<"a","d","j",".">>,
    <<"a","d","v",".">>,
    <<"p","r","e","p",".">>,
    <<"p","r","o","n",".">>,
    <<"c","o","n","j",".">>,
    <<"i","n","t","e","r","j",".">>,
    <<"d","e","t",".">>,
    <<"a","u","x","i","l","i","a","r","y">>,
    <<"a","u","x","i","l","i","a","r","y"," ","v",".">>,
    <<"a","u","x",".">>,
    <<"e","x","c","l","a","m",".">>,
    <<"m","o","d","a","l">>,
    <<"m","o","d","a","l"," ","v",".">>,
    <<"i","n","d","e","f","i","n","i","t","e"," ","a","r","t","i","c","l","e">>,
    <<"d","e","f","i","n","i","t","e"," ","a","r","t","i","c","l","e">>,
    <<"n","u","m","b","e","r">>,
    <<"i","n","f","i","n","i","t","i","v","e"," ","m","a","r","k","e","r">>
  >>

LEVEL_VALUES ==
  << <<"A","1">>, <<"A","2">>, <<"B","1">>, <<"B","2">>, <<"C","1">>, <<"C","2">> >>

\* The characters str.strip() removes, among the characters of the model.
Whitespace == {" ", "\n"}

(***************************************************************************)
(* The str methods the parser uses.                                        *)
(***************************************************************************)

\* s[i-1:].startswith(p), i counted from 1
HasAt(s, p, i) ==
  /\ i >= 1
  /\ i + Len(p) - 1 <= Len(s)
  /\ SubSeq(s, i, i + Len(p) - 1) = p

\* s.startswith(p)
StartsWith(s, p) == HasAt(s, p, 1)

\* s.endswith(p)
EndsWith(s, p) == Len(p) <= Len(s) /\ HasAt(s, p, Len(s) - Len(p) + 1)

\* s[i-1:]
From(s, i) == SubSeq(s, i, Len(s))

\* s.find(p, i-1) + 1: the first place at or after i where p occurs, 0 if none
RECURSIVE Find(_, _, _)
Find(s, p, i) ==
  IF i + Len(p) - 1 > Len(s) THEN 0
  ELSE IF HasAt(s, p, i) THEN i
  ELSE Find(s, p, i + 1)

\* s.replace(old, ''): every occurrence, left to right, non-overlapping.
\* With old = '' Python inserts the replacement between the characters, which
\* for the replacement '' is s itself.
RECURSIVE ReplaceAll(_, _)
ReplaceAll(s, old) ==
  IF old = <<>> THEN s
  ELSE LET i == Find(s, old, 1)
       IN IF i = 0 THEN s
          ELSE SubSeq(s, 1, i - 1) \o ReplaceAll(From(s, i + Len(old)), old)

\* s.strip()
Strip(s) ==
  LET keep == {i \in 1..Len(s) : s[i] \notin Whitespace}
  IN IF keep = {} THEN <<>>
     ELSE LET lo == CHOOSE i \in keep : \A j \in keep : i <= j
              hi == CHOOSE i \in keep : \A j \in keep : j <= i
          IN SubSeq(s, lo, hi)

\* The first place at or after i where s holds a character of seps, 0 if none
RECURSIVE FindChar(_, _, _)
FindChar(s, seps, i) ==
  IF i > Len(s) THEN 0
  ELSE IF s[i] \in seps THEN i
  ELSE FindChar(s, seps, i + 1)

\* s.split(' ') with seps = {" "}, and re.split(r',|\/', s) with seps = {",", "/"}:
\* every separator character splits, empty pieces are kept.
RECURSIVE SplitOn(_, _)
SplitOn(s, seps) ==
  LET i == FindChar(s, seps, 1)
  IN IF i = 0 THEN <<s>>
     ELSE <<SubSeq(s, 1, i - 1)>> \o SplitOn(From(s, i + 1), seps)

\* sep.join(parts)
RECURSIVE Join(_, _)
Join(parts, sep) ==
  IF Len(parts) = 0 THEN <<>>
  ELSE IF Len(parts) = 1 THEN parts[1]
  ELSE parts[1] \o sep \o Join(Tail(parts), sep)

(***************************************************************************)
(* The compiled patterns.                                                  *)
(***************************************************************************)

\* start_with_definition_pattern.match(s): '^\((.*?)\)', where '.' matches
\* every character but the newline
StartsWithDefinition(s) ==
  /\ Len(s) >= 1
  /\ s[1] = "("
  /\ \E j \in 2..Len(s) : s[j] = ")" /\ \A k \in 2..(j - 1) : s[k] # "\n"

\* start_with_part_of_speech_pattern.match(s): a vocabulary entry is a prefix
StartsWithPartOfSpeech(s) ==
  \E k \in 1..Len(PART_OF_SPEECH_VALUES) : StartsWith(s, PART_OF_SPEECH_VALUES[k])

\* The same test at the start of every token, the first one included.
ScanStopsAnywhere(line_parts0, i) ==
  LET remaining_line == Join(From(line_parts0, i), <<" ">>)
  IN StartsWithDefinition(remaining_line) \/ StartsWithPartOfSpeech(remaining_line)

\* The scan's decision at token i (counted from 1): the first token is never a
\* boundary; a later one is when the line from it on starts with a definition or
\* with a part of speech.
ScanStops(line_parts0, i) ==
  /\ i # 1
  /\ LET remaining_line == Join(From(line_parts0, i), <<" ">>)
     IN StartsWithDefinition(remaining_line) \/ StartsWithPartOfSpeech(remaining_line)

\* A prefix match in place of the anchored one.
PartOfSpeechPrefixMatch(c) == StartsWithPartOfSpeech(c)

\* part_of_speech_pattern.match(c): '^(...)$', where '$' matches at the end of
\* the string and also just before a newline that ends it
PartOfSpeechMatch(c) ==
  \E k \in 1..Len(PART_OF_SPEECH_VALUES) :
     \/ c = PART_OF_SPEECH_VALUES[k]
     \/ c = PART_OF_SPEECH_VALUES[k] \o <<"\n">>

\* A level code starts at place i of s
LevelAt(s, i) == \E k \in 1..Len(LEVEL_VALUES) : HasAt(s, LEVEL_VALUES[k], i)

\* level_pattern.search(s): the place of the leftmost level code, 0 if none
RECURSIVE LevelSearch(_, _)
LevelSearch(s, i) ==
  IF i + 1 > Len(s) THEN 0
  ELSE IF LevelAt(s, i) THEN i
  ELSE LevelSearch(s, i + 1)

\* candidate == 'A1' or ... or candidate == 'C2'
IsLevel(c) == \E k \in 1..Len(LEVEL_VALUES) : c = LEVEL_VALUES[k]

\* A test of the last character alone.
EndsWithLevelDigit(c) == Len(c) >= 1 /\ c[Len(c)] \in {"1", "2"}

\* No test for a level code that closes the line.
EndsWithLevelNever(c) == FALSE

\* candidate.endswith('A1') or ... or candidate.endswith('C2')
EndsWithLevel(c) == \E k \in 1..Len(LEVEL_VALUES) : EndsWith(c, LEVEL_VALUES[k])

\* The first place at or after i where a level code is followed by a comma
RECURSIVE FindLevelComma(_, _)
FindLevelComma(s, i) ==
  IF i + 2 > Len(s) THEN 0
  ELSE IF LevelAt(s, i) /\ s[i + 2] = "," THEN i
  ELSE FindLevelComma(s, i + 1)

\* re.split(r'(A1|A2|B1|B2|C1|C2),', s): the texts between the matches, with the
\* captured level code of each match between them
RECURSIVE SplitLevelComma(_)
SplitLevelComma(s) ==
  LET i == FindLevelComma(s, 1)
  IN IF i = 0 THEN <<s>>
     ELSE <<SubSeq(s, 1, i - 1), SubSeq(s, i, i + 1)>> \o SplitLevelComma(From(s, i + 3))

\* subentry.split('(')[1].split(')')[0], for a subentry that starts with '('
DefinitionOf(s) ==
  LET afterOpen == SplitOn(s, {"("})[2]
  IN SplitOn(afterOpen, {")"})[1]

(***************************************************************************)
(* The inputs: the lines main() reads and hands to parse_word_entry, and   *)
(* the raw subentries handed to parse_subentry.                            *)
(***************************************************************************)

MaxTokens == 3
MaxSubentries == 3
MaxPieces == 3

SPACE == <<" ">>

\* The tokens of the free-form lines: a word, a word that is also a part of
\* speech, a part of speech, a definition that repeats the word, level codes
\* with and without a comma, a token that turns into a level code once the word
\* is deleted from it, the empty token (a doubled, leading or trailing blank),
\* and a level code with the newline readlines() leaves on a line.
LineTokens ==
  { <<"x">>,
    <<"n","u","m","b","e","r">>,
    <<"n",".">>,
    <<"(","x",")">>,
    <<"A","1">>,
    <<"B","2",",">>,
    <<"A","x","1">>,
    <<>>,
    <<"A","1","\n">> }

\* The parts of the lines "<word> (<def>) <pos1>, <pos2> <LEVEL>"
Words == { <<"x">>, <<"a">> }
Defs == { <<>>, <<"a"," ","b">>, <<"B","1",","," ","z">> }

\* The levels of those lines
EntryLevels == { <<"B","1">>, <<"C","2">> }

\* The texts s_i of the lines "x s1 L1, s2 L2, ..., sk Lk"; the empty one puts
\* two level codes next to each other
Segments ==
  { <<"n",".">>,
    <<"(","y",")"," ","n",".","/","y",","," ","v",".">>,
    <<"y">>,
    <<>> }
SegmentLevels == { <<"A","1">>, <<"B","2">> }

\* The pieces the raw subentries handed to parse_subentry are made of
SubPieces ==
  { <<"(">>, <<")">>, <<"y">>, SPACE, <<",">>, <<"/">>, <<"n",".">>, <<"A","1">>, <<"\n">> }

SeqsUpTo(S, n) == UNION { [1..k -> S] : k \in 1..n }

RECURSIVE Concat(_)
Concat(parts) == IF Len(parts) = 0 THEN <<>> ELSE parts[1] \o Concat(Tail(parts))

EntryLine(w, d, p1, p2, l) ==
  w \o <<" ", "(">> \o d \o <<")", " ">> \o p1 \o <<",", " ">> \o p2 \o SPACE \o l

\* "s1 L1, s2 L2, ..., sk Lk"
MultiRemainder(segs, levels) ==
  Join([i \in 1..Len(segs) |-> segs[i] \o SPACE \o levels[i]], <<",", " ">>)

MkInput(kind, text, word0, def, tags, segs, levels) ==
  [kind |-> kind, text |-> text, word |-> word0, def |-> def, tags |-> tags,
   segs |-> segs, levels |-> levels]

TokenInputs ==
  { MkInput("tokens", Join(t, SPACE), <<>>, <<>>, <<>>, <<>>, <<>>) :
      t \in SeqsUpTo(LineTokens, MaxTokens) }

EntryInputs ==
  { MkInput("entry",
            EntryLine(c[1], c[2], PART_OF_SPEECH_VALUES[c[3]],
                      PART_OF_SPEECH_VALUES[c[4]], c[5]),
            c[1], c[2],
            <<PART_OF_SPEECH_VALUES[c[3]], PART_OF_SPEECH_VALUES[c[4]]>>,
            <<>>, <<c[5]>>) :
      c \in Words \X Defs \X (1..Len(PART_OF_SPEECH_VALUES))
              \X (1..Len(PART_OF_SPEECH_VALUES)) \X EntryLevels }

MultiInputs ==
  UNION { { MkInput("multi", <<"x", " ">> \o MultiRemainder(segs, levels),
                    <<"x">>, <<>>, <<>>, segs, levels) :
              segs \in [1..k -> Segments], levels \in [1..k -> SegmentLevels] } :
          k \in 1..MaxSubentries }

SubentryInputs ==
  { MkInput("subentry", Concat(p), <<>>, <<>>, <<>>, <<>>, <<>>) :
      p \in SeqsUpTo(SubPieces, MaxPieces) }

(***************************************************************************)
(* The state: the locals of parse_word_entry and of parse_subentry, the    *)
(* position in them, and what parse_subentry found for each subentry.      *)
(***************************************************************************)
VARIABLES
  input,                      \* the call's argument and how it was made up
  entry,                      \* the function called: parse_word_entry or parse_subentry
  pc,                         \* the position in the code
  line,                       \* parse_word_entry's line (reassigned at line 110)
  line_parts,
  line_part_index,            \* the for loop's index, counted from 1
  word_parts,
  word,
  subentry_candidates,
  candidate_index,            \* the place of the second for loop, counted from 1
  subentry_part,
  subentries,
  subentry_index,             \* the place of the last for loop, counted from 1
  subentry,                   \* parse_subentry's subentry (reassigned at 47 and 58)
  definition,
  level,                      \* <<>> while the local is unbound
  part_of_speech_candidates,
  part_of_speech_index,
  part_of_speech,
  parsed                      \* (definition, part_of_speech, level) of each finished parse_subentry

vars ==
  << input, entry, pc, line, line_parts, line_part_index, word_parts, word,
     subentry_candidates, candidate_index, subentry_part, subentries,
     subentry_index, subentry, definition, level, part_of_speech_candidates,
     part_of_speech_index, part_of_speech, parsed >>

scanVars == << line_parts, line_part_index, word_parts >>
splitVars == << subentry_candidates, candidate_index, subentry_part, subentries >>
subVars ==
  << subentry, definition, level, part_of_speech_candidates,
     part_of_speech_index, part_of_speech >>

NoLocals ==
  /\ word_parts = <<>>
  /\ word = <<>>
  /\ subentry_candidates = <<>>
  /\ candidate_index = 1
  /\ subentry_part = <<>>
  /\ subentries = <<>>
  /\ subentry_index = 1
  /\ definition = <<>>
  /\ level = <<>>
  /\ part_of_speech_candidates = <<>>
  /\ part_of_speech_index = 1
  /\ part_of_speech = <<>>
  /\ parsed = <<>>

\* parse_word_entry(line) has run lines 87-89
InitWordEntry ==
  /\ input \in TokenInputs \cup EntryInputs \cup MultiInputs
  /\ entry = "parse_word_entry"
  /\ pc = "scan"
  /\ line = input.text
  /\ line_parts = SplitOn(input.text, {" "})
  /\ line_part_index = 1
  /\ subentry = <<>>
  /\ NoLocals

\* parse_subentry(subentry) is entered
InitSubentry ==
  /\ input \in SubentryInputs
  /\ entry = "parse_subentry"
  /\ pc = "definition"
  /\ line = <<>>
  /\ line_parts = <<>>
  /\ line_part_index = 1
  /\ subentry = input.text
  /\ NoLocals

Init == InitWordEntry \/ InitSubentry

(***************************************************************************)
(* parse_word_entry, lines 90-105: the scan for the word forms.            *)
(***************************************************************************)

\* lines 92-95: the first token goes to the word unconditionally
ScanFirst ==
  /\ pc = "scan"
  /\ line_part_index <= Len(line_parts)
  /\ line_part_index = 1
  /\ word_parts' = Append(word_parts, line_parts[line_part_index])
  /\ line_part_index' = line_part_index + 1
  /\ UNCHANGED << input, entry, pc, line, line_parts, word, splitVars,
                  subentry_index, subVars, parsed >>

\* lines 96-102: the line from this token on starts with a definition or with a
\* part of speech: break
ScanBreak ==
  /\ pc = "scan"
  /\ line_part_index <= Len(line_parts)
  /\ ScanStops(line_parts, line_part_index)
  /\ pc' = "word"
  /\ UNCHANGED << input, entry, line, scanVars, word, splitVars,
                  subentry_index, subVars, parsed >>

\* lines 103-105: the token belongs to the word
ScanAppend ==
  /\ pc = "scan"
  /\ line_part_index <= Len(line_parts)
  /\ line_part_index # 1
  /\ ~ScanStops(line_parts, line_part_index)
  /\ word_parts' = Append(word_parts, line_parts[line_part_index])
  /\ line_part_index' = line_part_index + 1
  /\ UNCHANGED << input, entry, pc, line, line_parts, word, splitVars,
                  subentry_index, subVars, parsed >>

\* the range is exhausted
ScanEnd ==
  /\ pc = "scan"
  /\ line_part_index > Len(line_parts)
  /\ pc' = "word"
  /\ UNCHANGED << input, entry, line, scanVars, word, splitVars,
                  subentry_index, subVars, parsed >>

\* line 110: line.replace(word, ''), before the strip
RemoveWord(l, w) == ReplaceAll(l, w)

\* lines 107-110
TakeWord ==
  /\ pc = "word"
  /\ word' = Join(word_parts, SPACE)
  /\ line' = Strip(RemoveWord(line, word'))
  /\ pc' = "split"
  /\ UNCHANGED << input, entry, scanVars, splitVars, subentry_index, subVars, parsed >>

(***************************************************************************)
(* parse_word_entry, lines 116-132: the split into raw subentries.         *)
(***************************************************************************)

\* lines 116-119
SplitLine ==
  /\ pc = "split"
  /\ subentries' = <<>>
  /\ subentry_candidates' = SplitLevelComma(line)
  /\ subentry_part' = <<>>
  /\ candidate_index' = 1
  /\ pc' = "collect"
  /\ UNCHANGED << input, entry, line, scanVars, word, subentry_index, subVars, parsed >>

\* line 121
Candidate == Strip(subentry_candidates[candidate_index])

\* lines 122-123
CollectEmpty ==
  /\ pc = "collect"
  /\ candidate_index <= Len(subentry_candidates)
  /\ Candidate = <<>>
  /\ candidate_index' = candidate_index + 1
  /\ UNCHANGED << input, entry, pc, line, scanVars, word, subentry_candidates,
                  subentry_part, subentries, subentry_index, subVars, parsed >>

\* The buffer after a level code has closed a subentry (lines 124-126 leave
\* subentry_part as it is)
BufferAfterLevel(part) == part

\* lines 124-126
CollectLevel ==
  /\ pc = "collect"
  /\ candidate_index <= Len(subentry_candidates)
  /\ Candidate # <<>>
  /\ IsLevel(Candidate)
  /\ subentries' = Append(subentries, subentry_part \o SPACE \o Candidate)
  /\ subentry_part' = BufferAfterLevel(subentry_part)
  /\ candidate_index' = candidate_index + 1
  /\ UNCHANGED << input, entry, pc, line, scanVars, word, subentry_candidates,
                  subentry_index, subVars, parsed >>

\* lines 127-129
CollectClosed ==
  /\ pc = "collect"
  /\ candidate_index <= Len(subentry_candidates)
  /\ Candidate # <<>>
  /\ ~IsLevel(Candidate)
  /\ EndsWithLevel(Candidate)
  /\ subentries' = Append(subentries, Candidate)
  /\ candidate_index' = candidate_index + 1
  /\ UNCHANGED << input, entry, pc, line, scanVars, word, subentry_candidates,
                  subentry_part, subentry_index, subVars, parsed >>

\* lines 130-131
CollectPart ==
  /\ pc = "collect"
  /\ candidate_index <= Len(subentry_candidates)
  /\ Candidate # <<>>
  /\ ~IsLevel(Candidate)
  /\ ~EndsWithLevel(Candidate)
  /\ subentry_part' = Candidate
  /\ candidate_index' = candidate_index + 1
  /\ UNCHANGED << input, entry, pc, line, scanVars, word, subentry_candidates,
                  subentries, subentry_index, subVars, parsed >>

\* the candidates are exhausted
CollectEnd ==
  /\ pc = "collect"
  /\ candidate_index > Len(subentry_candidates)
  /\ subentry_index' = 1
  /\ pc' = "call"
  /\ UNCHANGED << input, entry, line, scanVars, word, splitVars, subVars, parsed >>

\* lines 139-140: parse_subentry(subentry) for the next subentry
CallParseSubentry ==
  /\ pc = "call"
  /\ subentry_index <= Len(subentries)
  /\ subentry' = subentries[subentry_index]
  /\ definition' = <<>>
  /\ level' = <<>>
  /\ part_of_speech_candidates' = <<>>
  /\ part_of_speech_index' = 1
  /\ part_of_speech' = <<>>
  /\ pc' = "definition"
  /\ UNCHANGED << input, entry, line, scanVars, word, splitVars, subentry_index, parsed >>

\* parse_word_entry returns
ReturnWordEntry ==
  /\ pc = "call"
  /\ subentry_index > Len(subentries)
  /\ pc' = "done"
  /\ UNCHANGED << input, entry, line, scanVars, word, splitVars, subentry_index,
                  subVars, parsed >>

(***************************************************************************)
(* parse_subentry.                                                         *)
(***************************************************************************)

\* lines 40-44: the definition, '' when the subentry does not start with '('
DefinitionFound(s) == IF StartsWith(s, <<"(">>) THEN DefinitionOf(s) ELSE <<>>

\* line 47: subentry.replace(f'({definition})', '').strip()
WithoutDefinition(s, d) == Strip(ReplaceAll(s, <<"(">> \o d \o <<")">>))

\* lines 40-42 and 47: the subentry starts with '('
ParseDefinition ==
  /\ pc = "definition"
  /\ StartsWith(subentry, <<"(">>)
  /\ definition' = DefinitionFound(subentry)
  /\ subentry' = WithoutDefinition(subentry, definition')
  /\ pc' = "level"
  /\ UNCHANGED << input, entry, line, scanVars, word, splitVars, subentry_index,
                  level, part_of_speech_candidates, part_of_speech_index,
                  part_of_speech, parsed >>

\* lines 43-44 and 47: it does not
ParseNoDefinition ==
  /\ pc = "definition"
  /\ ~StartsWith(subentry, <<"(">>)
  /\ definition' = DefinitionFound(subentry)
  /\ subentry' = WithoutDefinition(subentry, definition')
  /\ pc' = "level"
  /\ UNCHANGED << input, entry, line, scanVars, word, splitVars, subentry_index,
                  level, part_of_speech_candidates, part_of_speech_index,
                  part_of_speech, parsed >>

\* lines 50-53, 58 and 62-63: a level code is found, recorded and removed, and
\* what is left is split on ',' and '/'
ParseLevel ==
  /\ pc = "level"
  /\ LevelSearch(subentry, 1) # 0
  /\ LET i == LevelSearch(subentry, 1)
     IN /\ level' = SubSeq(subentry, i, i + 1)
        /\ subentry' = Strip(ReplaceAll(subentry, level'))
  /\ part_of_speech' = <<>>
  /\ part_of_speech_candidates' = SplitOn(subentry', {",", "/"})
  /\ part_of_speech_index' = 1
  /\ pc' = "part_of_speech"
  /\ UNCHANGED << input, entry, line, scanVars, word, splitVars, subentry_index,
                  definition, parsed >>

\* lines 54-55 and 58: no level code; level is still unbound when line 58
\* reads it, and the UnboundLocalError leaves parse_subentry and its caller
ParseLevelUnbound ==
  /\ pc = "level"
  /\ LevelSearch(subentry, 1) = 0
  /\ pc' = "raised"
  /\ UNCHANGED << input, entry, line, scanVars, word, splitVars, subentry_index,
                  subVars, parsed >>

\* line 65
PartOfSpeechCandidate == Strip(part_of_speech_candidates[part_of_speech_index])

\* lines 66-67
PartOfSpeechEmpty ==
  /\ pc = "part_of_speech"
  /\ part_of_speech_index <= Len(part_of_speech_candidates)
  /\ PartOfSpeechCandidate = <<>>
  /\ part_of_speech_index' = part_of_speech_index + 1
  /\ UNCHANGED << input, entry, pc, line, scanVars, word, splitVars, subentry_index,
                  subentry, definition, level, part_of_speech_candidates,
                  part_of_speech, parsed >>

\* lines 68-69
PartOfSpeechMatched ==
  /\ pc = "part_of_speech"
  /\ part_of_speech_index <= Len(part_of_speech_candidates)
  /\ PartOfSpeechCandidate # <<>>
  /\ PartOfSpeechMatch(PartOfSpeechCandidate)
  /\ part_of_speech' = Append(part_of_speech, PartOfSpeechCandidate)
  /\ part_of_speech_index' = part_of_speech_index + 1
  /\ UNCHANGED << input, entry, pc, line, scanVars, word, splitVars, subentry_index,
                  subentry, definition, level, part_of_speech_candidates, parsed >>

\* lines 70-71
PartOfSpeechNotMatched ==
  /\ pc = "part_of_speech"
  /\ part_of_speech_index <= Len(part_of_speech_candidates)
  /\ PartOfSpeechCandidate # <<>>
  /\ ~PartOfSpeechMatch(PartOfSpeechCandidate)
  /\ part_of_speech_index' = part_of_speech_index + 1
  /\ UNCHANGED << input, entry, pc, line, scanVars, word, splitVars, subentry_index,
                  subentry, definition, level, part_of_speech_candidates,
                  part_of_speech, parsed >>

\* line 73 and the return, to the loop of line 139 or to the caller
ReturnSubentry ==
  /\ pc = "part_of_speech"
  /\ part_of_speech_index > Len(part_of_speech_candidates)
  /\ parsed' = Append(parsed, [definition |-> definition,
                               part_of_speech |-> part_of_speech,
                               level |-> level])
  /\ IF entry = "parse_word_entry"
       THEN /\ subentry_index' = subentry_index + 1
            /\ pc' = "call"
       ELSE /\ subentry_index' = subentry_index
            /\ pc' = "done"
  /\ UNCHANGED << input, entry, line, scanVars, word, splitVars, subVars >>

Next ==
  \/ ScanFirst
  \/ ScanBreak
  \/ ScanAppend
  \/ ScanEnd
  \/ TakeWord
  \/ SplitLine
  \/ CollectEmpty
  \/ CollectLevel
  \/ CollectClosed
  \/ CollectPart
  \/ CollectEnd
  \/ CallParseSubentry
  \/ ReturnWordEntry
  \/ ParseDefinition
  \/ ParseNoDefinition
  \/ ParseLevel
  \/ ParseLevelUnbound
  \/ PartOfSpeechEmpty
  \/ PartOfSpeechMatched
  \/ PartOfSpeechNotMatched
  \/ ReturnSubentry

Spec == Init /\ [][Next]_vars

(***************************************************************************)
(* The properties.                                                         *)
(***************************************************************************)

WordEntry == entry = "parse_word_entry"
Finished == pc \in {"done", "raised"}
AfterScan == pc \notin {"scan", "word"}
AfterCollect == pc \notin {"scan", "word", "split", "collect"}

\* The text parse_subentry was called with
RawSubentry == IF WordEntry THEN subentries[subentry_index] ELSE input.text

InParseSubentry == pc \in {"definition", "level", "part_of_speech"}

Vocabulary == { PART_OF_SPEECH_VALUES[k] : k \in 1..Len(PART_OF_SPEECH_VALUES) }
InVocabulary(c) == c \in Vocabulary

NoLevelIn(s) == \A i \in 1..Len(s) : ~LevelAt(s, i)

\* C1: a line "<word> (<def>) <pos1>, <pos2> <LEVEL>" is parsed, without an
\* exception, to the word forms <word> and to exactly one subentry, with the
\* definition <def>, the parts of speech <pos1>, <pos2> in that order and the
\* level <LEVEL>.
C1_EntryRecovered ==
  (input.kind = "entry" /\ Finished) =>
     /\ pc = "done"
     /\ word = input.word
     /\ parsed = << [definition |-> input.def,
                     part_of_speech |-> input.tags,
                     level |-> input.levels[1]] >>

\* C2: parse_word_entry never raises: whatever the line, the scan, the split and
\* every call of parse_subentry on an emitted subentry end without an
\* exception, and at the return every emitted subentry has been parsed.
C2_WordEntryTotal ==
  WordEntry =>
     /\ pc # "raised"
     /\ InParseSubentry => subentry_index <= Len(subentries)
     /\ pc = "done" => Len(parsed) = Len(subentries)

\* C2's case: a line that is no well-formed entry (it starts with a blank, so
\* that its word forms are empty) has been split, and parse_subentry has
\* returned for every subentry of it.
C2_Witness ==
  /\ WordEntry
  /\ input.kind = "tokens"
  /\ pc = "done"
  /\ word = <<>>
  /\ Len(subentries) >= 1
  /\ Len(parsed) = Len(subentries)

\* C3: a line with no level code anywhere in it gives no subentry:
\* parse_subentry is not called and no level is recorded.
C3_NoLevelNoSubentry ==
  (WordEntry /\ NoLevelIn(input.text)) =>
     /\ subentries = <<>>
     /\ ~InParseSubentry
     /\ level = <<>>
     /\ parsed = <<>>

\* C4: parse_subentry, given a raw subentry with no level code in it, does not
\* raise, and records neither a level nor a part-of-speech list for it.
C4_MissingLevelNoRaise ==
  (entry = "parse_subentry" /\ NoLevelIn(input.text)) =>
     /\ pc # "raised"
     /\ parsed = <<>>

\* C5: every element of parse_subentry's part_of_speech list is one of the
\* twenty vocabulary strings, and the list is, in their order, the candidates
\* seen so far (the working text split on ',' and '/', each trimmed) that are in
\* the vocabulary; the same holds of the list of every finished call.
C5_ClosedVocabulary ==
  /\ \A i \in 1..Len(part_of_speech) : part_of_speech[i] \in Vocabulary
  /\ \A n \in 1..Len(parsed) :
        \A i \in 1..Len(parsed[n].part_of_speech) :
           parsed[n].part_of_speech[i] \in Vocabulary
  /\ pc = "part_of_speech" =>
        LET seen == [i \in 1..(part_of_speech_index - 1) |->
                        Strip(SplitOn(subentry, {",", "/"})[i])]
        IN part_of_speech = SelectSeq(seen, InVocabulary)

\* C5's case: parse_subentry has gone through all its candidates, has kept two
\* different tags and has dropped a candidate that is not in the vocabulary.
C5_Witness ==
  /\ pc = "part_of_speech"
  /\ part_of_speech_index > Len(part_of_speech_candidates)
  /\ Len(part_of_speech) = 2
  /\ part_of_speech[1] # part_of_speech[2]
  /\ \E i \in 1..Len(part_of_speech_candidates) :
        /\ Strip(part_of_speech_candidates[i]) # <<>>
        /\ Strip(part_of_speech_candidates[i]) \notin Vocabulary

\* The first space-delimited token of s
FirstToken(s) == IF FindChar(s, {" "}, 1) = 0 THEN s
                 ELSE SubSeq(s, 1, FindChar(s, {" "}, 1) - 1)

Trimmed(s) == s # <<>> /\ s[1] \notin Whitespace /\ s[Len(s)] \notin Whitespace

\* C6: for a trimmed non-empty line, once the scan has taken its first step the
\* first token of the line is the first of the word parts, and the word forms
\* computed are not empty and start with that token, also when the token
\* starts like a part of speech or like a definition.
C6_FirstToken ==
  (WordEntry /\ Trimmed(input.text)) =>
     /\ (pc = "scan" /\ line_part_index > 1) => word_parts[1] = FirstToken(input.text)
     /\ pc = "word" => (word_parts # <<>> /\ word_parts[1] = FirstToken(input.text))
     /\ AfterScan => (word # <<>> /\ FirstToken(word) = FirstToken(input.text))

\* C6's case: the first token of a trimmed line is itself a part-of-speech
\* marker, the scan has run and the word has been computed.
C6_Witness ==
  /\ WordEntry
  /\ Trimmed(input.text)
  /\ PartOfSpeechMatch(FirstToken(input.text))
  /\ pc = "split"
  /\ FirstToken(word) = FirstToken(input.text)

AllNonEmpty(segs) == \A i \in 1..Len(segs) : segs[i] # <<>>

\* The Remainder is "s1 L1, ..., sk Lk", each s_i non-empty
MultiForm ==
  /\ input.kind = "multi"
  /\ AllNonEmpty(input.segs)
  /\ AfterScan
  /\ line = MultiRemainder(input.segs, input.levels)

RemoveWordFirst(l, w) ==
  LET i == Find(l, w, 1)
  IN IF w = <<>> \/ i = 0 THEN l
     ELSE SubSeq(l, 1, i - 1) \o From(l, i + Len(w))

\* C8: the Remainder is the line with the first occurrence of the word forms
\* removed, and nothing else, then trimmed.
C8_FirstOccurrenceOnly ==
  (WordEntry /\ AfterScan) => line = Strip(RemoveWordFirst(input.text, word))

\* The buffer when candidate j is reached, were it emptied each time a level
\* code closes a subentry: the loop of lines 120-132 with that one reset added
RECURSIVE BufferWithReset(_)
BufferWithReset(j) ==
  IF j = 1 THEN <<>>
  ELSE LET c == Strip(subentry_candidates[j - 1])
       IN IF c = <<>> THEN BufferWithReset(j - 1)
          ELSE IF IsLevel(c) THEN <<>>
          ELSE IF EndsWithLevel(c) THEN BufferWithReset(j - 1)
          ELSE c

\* C9: the buffer is reset when a level code closes a subentry, so the
\* subentry a level code closes holds the text since the previous split point
\* and none of the text of a subentry emitted before it.
C9_BufferReset ==
  (WordEntry /\ pc = "collect" /\ candidate_index > 1
     /\ IsLevel(Strip(subentry_candidates[candidate_index - 1]))) =>
        subentries[Len(subentries)] =
           BufferWithReset(candidate_index - 1) \o SPACE
              \o Strip(subentry_candidates[candidate_index - 1])

\* The text strictly between the leading '(' of s and the first ')' after it
BetweenParentheses(s) == SubSeq(s, 2, FindChar(s, {")"}, 1) - 1)

\* C10: for a raw subentry that begins with '(' and contains a ')', the
\* definition is the text strictly between that '(' and the first ')', and the
\* parenthesised span is gone from the working text before the level is looked
\* for, also when that text contains a further '('.
C10_DefinitionSpan ==
  (pc = "level" /\ StartsWith(RawSubentry, <<"(">>) /\ FindChar(RawSubentry, {")"}, 1) # 0) =>
     /\ definition = BetweenParentheses(RawSubentry)
     /\ subentry = WithoutDefinition(RawSubentry, BetweenParentheses(RawSubentry))

====
